---- MODULE Spec2Model ----
(***************************************************************************)
(* Model of crev's proof wire format (crev-data/src/proof/mod.rs) and of   *)
(* its identity vault (crev-lib/src/id.rs).                                *)
(*                                                                         *)
(* Text.  A string is a sequence of symbols.  A symbol stands for a run of *)
(* bytes: one space, one newline, one marker literal, one chunk of         *)
(* non-blank text of a given byte width, or one base64 rendering.  The     *)
(* byte length of a string is the sum of its symbols' widths, so the       *)
(* parser's 16,000 and 2,000 byte caps are met with short sequences.       *)
(***************************************************************************)
EXTENDS Integers, Sequences, FiniteSets, TLC

(***************************************************************************)
(* Bounds of the model                                                     *)
(***************************************************************************)
\* number of chunks (single lines or whole proof blocks) the reader's buffer
\* is filled with before the input ends
MaxChunks == 4

(***************************************************************************)
(* Program constants                                                       *)
(***************************************************************************)
\* `if self.body.len() > 16_000`
MaxBodyLen == 16000
\* `if self.signature.len() > 2000`
MaxSigLen == 2000
\* byte width of a marker literal (review::Code::BEGIN_BLOCK and the like)
MarkerLen == 27

(***************************************************************************)
(* State                                                                   *)
(***************************************************************************)
VARIABLES
    \* Serialized::parse
    state,      \* the parser's State {stage, body, signature, type_, proofs}
    result,     \* "running", "ok", or the error parse returned
    returned,   \* the Vec<Serialized> handed to the caller on Ok
    input,      \* the lines the reader has yielded so far
    pending,    \* the lines waiting in the reader's buffer
    chunks,     \* how many times the reader's buffer was filled
    parsed,     \* what Proof::parse returns on the same input
    \* Content::sign_by and Proof::verify
    content,    \* the Content to sign
    signer,     \* the OwnId that signs
    proof,      \* the Proof at hand
    signedBody, \* the body as sign_by produced it
    verdict,    \* "none", "ok", or the error verify returned
    sstep,      \* "start", "signed", "verified"
    \* LockedId
    own,        \* the OwnId to lock
    lockPw,     \* the passphrase it was locked with
    locked,     \* the LockedId as stored
    orig,       \* the LockedId as from_own_id returned it
    vstep,      \* "start", "locked", "aborted", "done"
    unlockPw,   \* the passphrase given to to_unlocked
    unlockRes,  \* what to_unlocked returned, with the steps it ran
    \* Display
    shown,      \* the value rendered: a Proof or a Serialized
    showKind,   \* "none", "Proof", "Serialized"
    text,       \* the rendered text
    \* LockedId::save_to and read_from_yaml_file on one path
    file,       \* the file at the path: None, or Some(its text)
    lastSaved,  \* the LockedId of the last save_to
    saves,      \* how many times save_to was called
    readRes,    \* what read_from_yaml_file returned
    fstep,      \* "saving", "read"
    \* sign, render, then parse and render again
    rtProof,    \* the Proof sign_by produced
    rtText,     \* the text at hand
    rtPrev,     \* the text that was parsed to get the text at hand
    rtRecords,  \* what Serialized::parse returned on the text
    rtParsed,   \* what Proof::parse returned on the text
    rtCycles,   \* how many times a parsed text was rendered again
    rtStep      \* "start", "rendered", "parsed"

parseVars == <<state, result, returned, input, pending, chunks, parsed>>
signVars == <<content, signer, proof, signedBody, verdict, sstep>>
vaultVars == <<own, lockPw, locked, orig, vstep, unlockPw, unlockRes>>
showVars == <<shown, showKind, text>>
storeVars == <<file, lastSaved, saves, readRes, fstep>>
roundVars == <<rtProof, rtText, rtPrev, rtRecords, rtParsed, rtCycles, rtStep>>
vars == <<parseVars, signVars, vaultVars, showVars, storeVars, roundVars>>

(***************************************************************************)
(* Strings                                                                 *)
(***************************************************************************)
SP == <<"sp">>
NL == <<"nl">>
Txt(name, width) == <<"txt", name, width>>
\* the literal of variant t's marker k: Code::BEGIN_BLOCK, Trust::END_BLOCK, ...
Marker(t, k) == <<"mark", t, k>>

IsWhitespace(sym) == sym = SP \/ sym = NL

Width(sym) ==
    CASE sym[1] = "sp" -> 1
      [] sym[1] = "nl" -> 1
      [] sym[1] = "txt" -> sym[3]
      [] sym[1] = "mark" -> MarkerLen
      [] OTHER -> sym[3]

\* str.len(): the byte length
RECURSIVE StrLen(_)
StrLen(s) == IF s = <<>> THEN 0 ELSE Width(Head(s)) + StrLen(Tail(s))

RECURSIVE TrimStart(_)
TrimStart(s) ==
    IF s # <<>> /\ IsWhitespace(Head(s)) THEN TrimStart(Tail(s)) ELSE s

RECURSIVE TrimEnd(_)
TrimEnd(s) ==
    IF s # <<>> /\ IsWhitespace(s[Len(s)])
    THEN TrimEnd(SubSeq(s, 1, Len(s) - 1))
    ELSE s

\* str::trim(): without leading and trailing whitespace
Trim(s) == TrimEnd(TrimStart(s))

\* lines joined into a text, each followed by a newline
RECURSIVE JoinLines(_)
JoinLines(ls) ==
    IF ls = <<>> THEN <<>> ELSE Head(ls) \o <<NL>> \o JoinLines(Tail(ls))

(***************************************************************************)
(* ProofType and the marker registry                                       *)
(***************************************************************************)
ProofType == {"Code", "Project", "Trust"}

begin_block(t) == <<Marker(t, "BEGIN_BLOCK")>>
begin_signature(t) == <<Marker(t, "BEGIN_SIGNATURE")>>
end_block(t) == <<Marker(t, "END_BLOCK")>>

(***************************************************************************)
(* Serialized::parse: the line state machine                               *)
(***************************************************************************)
\* impl Default for State
StateDefault ==
    [stage |-> "None", body |-> <<>>, signature |-> <<>>,
     type_ |-> "Trust", proofs |-> <<>>]

Ok(st) == [st |-> st, err |-> "none"]
Bail(st, msg) == [st |-> st, err |-> msg]

\* process_none that skips a stray line instead of failing
process_none_skips(st, l) ==
    LET line == Trim(l) IN
    IF line = <<>> THEN [st |-> st, err |-> "none"]
    ELSE IF line = begin_block("Code")
         THEN [st |-> [st EXCEPT !.type_ = "Code", !.stage = "Body"], err |-> "none"]
    ELSE IF line = begin_block("Trust")
         THEN [st |-> [st EXCEPT !.type_ = "Trust", !.stage = "Body"], err |-> "none"]
    ELSE IF line = begin_block("Project")
         THEN [st |-> [st EXCEPT !.type_ = "Project", !.stage = "Body"], err |-> "none"]
    ELSE [st |-> st, err |-> "none"]

\* process_line, Stage::None
process_none(st, l) ==
    LET line == Trim(l) IN
    IF line = <<>> THEN Ok(st)
    ELSE IF line = begin_block("Code")
         THEN Ok([st EXCEPT !.type_ = "Code", !.stage = "Body"])
    ELSE IF line = begin_block("Trust")
         THEN Ok([st EXCEPT !.type_ = "Trust", !.stage = "Body"])
    ELSE IF line = begin_block("Project")
         THEN Ok([st EXCEPT !.type_ = "Project", !.stage = "Body"])
    ELSE Bail(st, "UnexpectedLine")

\* process_body that rejects a body of exactly MaxBodyLen bytes (>= for >)
process_body_ge(st, line) ==
    LET st1 == IF Trim(line) = begin_signature(st.type_)
               THEN [st EXCEPT !.stage = "Signature"]
               ELSE [st EXCEPT !.body = st.body \o line \o <<NL>>]
    IN  IF StrLen(st1.body) >= MaxBodyLen
        THEN [st |-> st1, err |-> "BodyTooLarge"]
        ELSE [st |-> st1, err |-> "none"]

\* process_body that leaves the body at any variant's begin-signature marker
process_body_any_sig(st, line) ==
    LET st1 == IF \E t \in ProofType : Trim(line) = begin_signature(t)
               THEN [st EXCEPT !.stage = "Signature"]
               ELSE [st EXCEPT !.body = st.body \o line \o <<NL>>]
    IN  IF StrLen(st1.body) > MaxBodyLen
        THEN [st |-> st1, err |-> "BodyTooLarge"]
        ELSE [st |-> st1, err |-> "none"]

\* process_line, Stage::Body
process_body(st, line) ==
    LET st1 == IF Trim(line) = begin_signature(st.type_)
               THEN [st EXCEPT !.stage = "Signature"]
               ELSE [st EXCEPT !.body = st.body \o line \o <<NL>>]
    IN  IF StrLen(st1.body) > MaxBodyLen
        THEN Bail(st1, "BodyTooLarge")
        ELSE Ok(st1)

\* process_signature that pushes copies and keeps the accumulators
\* (clone() for mem::replace)
process_signature_keeps(st, line) ==
    LET st1 == IF Trim(line) = end_block(st.type_)
               THEN [st EXCEPT
                        !.stage = "None",
                        !.proofs = Append(st.proofs,
                                     [body |-> st.body,
                                      signature |-> st.signature,
                                      type_ |-> st.type_])]
               ELSE [st EXCEPT !.signature = st.signature \o line \o <<NL>>]
    IN  IF StrLen(st1.signature) > MaxSigLen
        THEN [st |-> st1, err |-> "SignatureTooLarge"]
        ELSE [st |-> st1, err |-> "none"]

\* process_signature that measures the signature without the newlines it adds
process_signature_nonl(st, line) ==
    LET st1 == IF Trim(line) = end_block(st.type_)
               THEN [st EXCEPT
                        !.stage = "None",
                        !.proofs = Append(st.proofs,
                                     [body |-> st.body,
                                      signature |-> st.signature,
                                      type_ |-> st.type_]),
                        !.body = <<>>,
                        !.signature = <<>>]
               ELSE [st EXCEPT !.signature = st.signature \o line \o <<NL>>]
        nls == Cardinality({i \in DOMAIN st1.signature : st1.signature[i] = NL})
    IN  IF StrLen(st1.signature) - nls > MaxSigLen
        THEN [st |-> st1, err |-> "SignatureTooLarge"]
        ELSE [st |-> st1, err |-> "none"]

\* process_signature that takes the body out and leaves the signature behind
process_signature_keeps_sig(st, line) ==
    LET st1 == IF Trim(line) = end_block(st.type_)
               THEN [st EXCEPT
                        !.stage = "None",
                        !.proofs = Append(st.proofs,
                                     [body |-> st.body,
                                      signature |-> st.signature,
                                      type_ |-> st.type_]),
                        !.body = <<>>]
               ELSE [st EXCEPT !.signature = st.signature \o line \o <<NL>>]
    IN  IF StrLen(st1.signature) > MaxSigLen
        THEN [st |-> st1, err |-> "SignatureTooLarge"]
        ELSE [st |-> st1, err |-> "none"]

\* process_line, Stage::Signature
process_signature(st, line) ==
    LET st1 == IF Trim(line) = end_block(st.type_)
               THEN [st EXCEPT
                        !.stage = "None",
                        !.proofs = Append(st.proofs,
                                     [body |-> st.body,
                                      signature |-> st.signature,
                                      type_ |-> st.type_]),
                        !.body = <<>>,
                        !.signature = <<>>]
               ELSE [st EXCEPT !.signature = st.signature \o line \o <<NL>>]
    IN  IF StrLen(st1.signature) > MaxSigLen
        THEN Bail(st1, "SignatureTooLarge")
        ELSE Ok(st1)

\* State::process_line
process_line(st, line) ==
    CASE st.stage = "None" -> process_none(st, line)
      [] st.stage = "Body" -> process_body(st, line)
      [] st.stage = "Signature" -> process_signature(st, line)

\* finish that hands back the finished records whatever the stage
finish_nocheck(st) == [err |-> "none", proofs |-> st.proofs]

\* State::finish
finish(st) ==
    IF st.stage # "None"
    THEN [err |-> "UnexpectedEof", proofs |-> <<>>]
    ELSE [err |-> "none", proofs |-> st.proofs]

(***************************************************************************)
(* Identities (crev_data::id) and the signature primitives                 *)
(***************************************************************************)
Some(x) == <<x>>
None == <<>>

SecretKeys == {"sk1", "sk2"}
Urls == {"u1"}

\* the ed25519 public key of a secret key
PublicOf(sk) == <<"pub", sk>>

\* OwnId::new(url, sec_key): both keys and the PubId derived from the secret
OwnIdNew(url, sk) ==
    [id |-> [id |-> PublicOf(sk), url |-> Some(url)],
     keypair |-> [public |-> PublicOf(sk), secret |-> sk]]

\* the owning identities at hand; the PubId's url is an Option
OwnIds ==
    {[id |-> [id |-> PublicOf(sk), url |-> u],
      keypair |-> [public |-> PublicOf(sk), secret |-> sk]] :
        sk \in SecretKeys, u \in {None} \cup {Some(x) : x \in Urls}}

PubIds == {o.id : o \in OwnIds}

\* OwnId::sign: the ed25519 signature of msg under the secret key
OwnIdSign(id, msg) == <<"ed25519", id.keypair.secret, msg>>

\* base64::encode_config(bytes, URL_SAFE): text, one symbol wide 88 bytes
Base64Encode(bytes) == << <<"b64", bytes, 88>> >>

\* base64::decode_config(str, URL_SAFE)
Base64Decode(str) ==
    IF Len(str) = 1 /\ str[1][1] = "b64"
    THEN [ok |-> TRUE, bytes |-> str[1][2]]
    ELSE [ok |-> FALSE, bytes |-> <<>>]

\* Id::verify_signature(content, sig_str): decode, then check under the key
verify_signature(pubkey, bytes, sig_str) ==
    LET d == Base64Decode(sig_str) IN
    IF ~d.ok THEN "BadEncoding"
    ELSE IF /\ Len(d.bytes) = 3
            /\ d.bytes[1] = "ed25519"
            /\ PublicOf(d.bytes[2]) = pubkey
            /\ d.bytes[3] = bytes
         THEN "ok"
         ELSE "BadSignature"

\* crev_common::blake2sum
blake2sum(bytes) == <<"blake2b", bytes>>

(***************************************************************************)
(* Content, Proof, sign_by, verify                                         *)
(***************************************************************************)
\* the free-text lines a Content may carry (a review's comment)
Comments ==
    { <<>>,
      << <<Txt("a", 5)>> >>,
      << <<Txt("a", 5)>>, <<SP, SP, Txt("c", 7)>> >>,
      << <<SP, SP, Marker("Code", "BEGIN_SIGNATURE")>> >> }

\* Content: the variant, the author's PubId, the rest of its fields
Contents == [type_ : ProofType, from : PubIds, comment : Comments]

\* the variant's Display: the canonical text, a function of every field
VariantToString(c) ==
    << <<"yaml", <<c.type_, c.from>>, 60>>, NL >> \o JoinLines(c.comment)

\* impl fmt::Display for Content
ContentToString(c) ==
    CASE c.type_ = "Trust" -> VariantToString(c)
      [] c.type_ = "Code" -> VariantToString(c)
      [] c.type_ = "Project" -> VariantToString(c)

\* Content::proof_type
proof_type(c) ==
    CASE c.type_ = "Trust" -> "Trust"
      [] c.type_ = "Code" -> "Code"
      [] c.type_ = "Project" -> "Project"

\* Content::author_id
author_id(c) == c.from.id

\* Content::sign_by
sign_by(c, id) ==
    LET body == ContentToString(c) IN
    [digest |-> blake2sum(body),
     body |-> body,
     signature |-> Base64Encode(OwnIdSign(id, body)),
     content |-> c]

\* Proof::signature
ProofSignature(p) == Trim(p.signature)

\* verify that checks the text rendered from content, not the stored body
verify_rederives(p) ==
    verify_signature(author_id(p.content), ContentToString(p.content),
                     ProofSignature(p))

\* verify that first compares the stored digest with the hash of the body
verify_checks_digest(p) ==
    IF p.digest # blake2sum(p.body) THEN "BadDigest"
    ELSE verify_signature(author_id(p.content), p.body, Trim(p.signature))

\* Proof::verify
verify(p) == verify_signature(author_id(p.content), p.body, ProofSignature(p))

NoProof ==
    [digest |-> <<>>, body |-> <<>>, signature |-> <<>>,
     content |-> [type_ |-> "Trust",
                  from |-> [id |-> <<>>, url |-> None],
                  comment |-> <<>>]]

\* the lines of a text, as BufRead::lines yields them
RECURSIVE SplitLines(_)
SplitLines(s) ==
    IF s = <<>> THEN <<>>
    ELSE LET nls == {i \in DOMAIN s : s[i] = NL} IN
         IF nls = {} THEN <<s>>
         ELSE LET i == CHOOSE k \in nls : \A j \in nls : k <= j IN
              <<SubSeq(s, 1, i - 1)>> \o SplitLines(SubSeq(s, i + 1, Len(s)))

\* review::Code::parse, review::Project::parse, Trust::parse: the Content of
\* variant t whose canonical text is body, or the malformed-content error
VariantParse(body, t) ==
    IF /\ Len(body) >= 2
       /\ body[1][1] = "yaml"
       /\ body[1][2][1] = t
       /\ body[Len(body)] = NL
    THEN [ok |-> TRUE,
          content |-> [type_ |-> t, from |-> body[1][2][2],
                       comment |-> SplitLines(SubSeq(body, 3, Len(body)))]]
    ELSE [ok |-> FALSE, content |-> NoProof.content]

\* to_parsed that takes the digest of the signature text
to_parsed_sigdigest(s) ==
    LET c == VariantParse(s.body, s.type_) IN
    IF ~c.ok THEN [ok |-> FALSE, proof |-> NoProof]
    ELSE [ok |-> TRUE,
          proof |-> [body |-> s.body,
                     signature |-> s.signature,
                     digest |-> blake2sum(s.signature),
                     content |-> c.content]]

\* Serialized::to_parsed
to_parsed(s) ==
    LET c == CASE s.type_ = "Code" -> VariantParse(s.body, "Code")
               [] s.type_ = "Project" -> VariantParse(s.body, "Project")
               [] s.type_ = "Trust" -> VariantParse(s.body, "Trust")
    IN  IF ~c.ok THEN [ok |-> FALSE, proof |-> NoProof]
        ELSE [ok |-> TRUE,
              proof |-> [body |-> s.body,
                         signature |-> s.signature,
                         digest |-> blake2sum(s.body),
                         content |-> c.content]]

\* Proof::parse past Serialized::parse: to_parsed on every record, in order,
\* the first failure ending it
RECURSIVE to_parsed_all(_)
to_parsed_all(records) ==
    IF records = <<>> THEN [err |-> "none", proofs |-> <<>>]
    ELSE LET h == to_parsed(Head(records)) IN
         IF ~h.ok THEN [err |-> "MalformedContent", proofs |-> <<>>]
         ELSE LET rest == to_parsed_all(Tail(records)) IN
              IF rest.err # "none" THEN rest
              ELSE [err |-> "none", proofs |-> <<h.proof>> \o rest.proofs]

\* Proof::parse that keeps the proofs read before a failure
proof_parse_partial(res, records) ==
    IF res # "none" THEN [err |-> res, proofs |-> to_parsed_all(records).proofs]
    ELSE to_parsed_all(records)

\* Proof::parse, given what Serialized::parse returned
proof_parse(res, records) ==
    IF res # "none" THEN [err |-> res, proofs |-> <<>>]
    ELSE to_parsed_all(records)

\* a body with one byte changed, dropped or added
AlteredBodies(b) ==
    { b \o <<SP>>,
      SubSeq(b, 1, Len(b) - 1),
      <<Txt("x", Width(b[1]))>> \o Tail(b) }

SignIdle ==
    /\ content = NoProof.content
    /\ signer = <<>>
    /\ proof = NoProof
    /\ signedBody = <<>>
    /\ verdict = "none"
    /\ sstep = "idle"

SignStart ==
    /\ content \in Contents
    /\ signer \in OwnIds
    /\ proof = NoProof
    /\ signedBody = <<>>
    /\ verdict = "none"
    /\ sstep = "start"

\* content.sign_by(&signer)
SignBy ==
    /\ sstep = "start"
    /\ proof' = sign_by(content, signer)
    /\ signedBody' = proof'.body
    /\ sstep' = "signed"
    /\ UNCHANGED <<content, signer, verdict>>
    /\ UNCHANGED <<parseVars, vaultVars, showVars, storeVars, roundVars>>

\* a holder of the Proof changes its pub body field
AlterBody ==
    /\ sstep = "signed"
    /\ proof.body = signedBody
    /\ \E b \in AlteredBodies(proof.body) : proof' = [proof EXCEPT !.body = b]
    /\ UNCHANGED <<content, signer, signedBody, verdict, sstep>>
    /\ UNCHANGED <<parseVars, vaultVars, showVars, storeVars, roundVars>>

\* a holder of the Proof replaces its content by one of another author
AlterAuthor ==
    /\ sstep = "signed"
    /\ proof.content = content
    /\ \E a \in PubIds :
         /\ a # proof.content.from
         /\ proof' = [proof EXCEPT !.content.from = a]
    /\ UNCHANGED <<content, signer, signedBody, verdict, sstep>>
    /\ UNCHANGED <<parseVars, vaultVars, showVars, storeVars, roundVars>>

\* a holder of the Proof changes its pub digest field
AlterDigest ==
    /\ sstep = "signed"
    /\ proof.digest = blake2sum(signedBody)
    /\ \E d \in {blake2sum(<<>>), blake2sum(proof.signature)} :
         proof' = [proof EXCEPT !.digest = d]
    /\ UNCHANGED <<content, signer, signedBody, verdict, sstep>>
    /\ UNCHANGED <<parseVars, vaultVars, showVars, storeVars, roundVars>>

\* a holder of the Proof replaces its content by another of the same author
AlterContentRest ==
    /\ sstep = "signed"
    /\ proof.content = content
    /\ \E c \in Contents :
         /\ c.from = proof.content.from
         /\ c # proof.content
         /\ c.type_ = proof.content.type_ \/ c.comment = proof.content.comment
         /\ proof' = [proof EXCEPT !.content = c]
    /\ UNCHANGED <<content, signer, signedBody, verdict, sstep>>
    /\ UNCHANGED <<parseVars, vaultVars, showVars, storeVars, roundVars>>

\* a holder of the Proof adds whitespace around its pub signature field
PadSignature ==
    /\ sstep = "signed"
    /\ proof.signature = Trim(proof.signature)
    /\ \E g \in {proof.signature \o <<NL>>, <<SP>> \o proof.signature} :
         proof' = [proof EXCEPT !.signature = g]
    /\ UNCHANGED <<content, signer, signedBody, verdict, sstep>>
    /\ UNCHANGED <<parseVars, vaultVars, showVars, storeVars, roundVars>>

\* proof.verify()
Verify ==
    /\ sstep = "signed"
    /\ verdict' = verify(proof)
    /\ sstep' = "verified"
    /\ UNCHANGED <<content, signer, proof, signedBody>>
    /\ UNCHANGED <<parseVars, vaultVars, showVars, storeVars, roundVars>>

SignNext ==
    \/ SignBy
    \/ AlterBody
    \/ AlterAuthor
    \/ AlterDigest
    \/ AlterContentRest
    \/ PadSignature
    \/ Verify

(***************************************************************************)
(* LockedId: the password hash and the sealing primitives                  *)
(***************************************************************************)
Passphrases == {"pw", "wrong"}
\* what the random sources can yield: salts and nonces
Salts == {"salt1", "salt2"}
Nonces == {"nonce1", "nonce2"}

\* crev_data::current_version()
current_version == -1

\* argonautica's Hasher::default(); the salt is drawn when hashing
HasherDefault ==
    [variant |-> "Argon2id", version |-> "_0x13", iterations |-> 192,
     memory_size |-> 4096, hash_len |-> 32, lanes |-> "cpus",
     salt |-> None, opt_out_of_secret_key |-> FALSE]

\* argonautica::config::Version::from_u32
VersionFromU32(n) ==
    IF n = 16 THEN [ok |-> TRUE, v |-> "_0x10"]
    ELSE IF n = 19 THEN [ok |-> TRUE, v |-> "_0x13"]
    ELSE [ok |-> FALSE, v |-> "_0x13"]

\* Variant::as_str
VariantAsStr(v) ==
    CASE v = "Argon2d" -> "argon2d"
      [] v = "Argon2i" -> "argon2i"
      [] v = "Argon2id" -> "argon2id"

\* impl FromStr for Variant
VariantFromStr(s) ==
    IF s = "argon2d" THEN [ok |-> TRUE, v |-> "Argon2d"]
    ELSE IF s = "argon2i" THEN [ok |-> TRUE, v |-> "Argon2i"]
    ELSE IF s = "argon2id" THEN [ok |-> TRUE, v |-> "Argon2id"]
    ELSE [ok |-> FALSE, v |-> "Argon2id"]

\* Hasher::with_password(p).hash_raw(): the raw hash is a function of every
\* parameter of the configuration, the salt and the password; rnd is the salt
\* drawn when none was given
hash_raw(h, password, rnd) ==
    LET salt == IF h.salt = None THEN rnd ELSE h.salt[1] IN
    IF ~h.opt_out_of_secret_key \/ h.iterations < 1
    THEN [ok |-> FALSE, raw_hash_bytes |-> <<>>, raw_salt_bytes |-> salt]
    ELSE [ok |-> TRUE,
          raw_hash_bytes |-> <<"argon2", h.variant, h.version, h.iterations,
                               h.memory_size, h.hash_len, h.lanes, salt,
                               password>>,
          raw_salt_bytes |-> salt]

\* Aes256Siv::new(key).seal(nonce, ad, plaintext)
siv_seal(key, nonce, plaintext) == <<"siv", key, nonce, plaintext, "intact">>

\* Aes256Siv::new(key).open(nonce, ad, ciphertext): the plaintext, when the
\* ciphertext was sealed under this key and nonce and is unchanged
siv_open(key, nonce, ct) ==
    IF ct[2] = key /\ ct[3] = nonce /\ ct[5] = "intact"
    THEN [ok |-> TRUE, plaintext |-> ct[4]]
    ELSE [ok |-> FALSE, plaintext |-> <<>>]

\* from_own_id: the hasher as configured for locking
lock_hasher ==
    [HasherDefault EXCEPT !.memory_size = 4096, !.hash_len = 64,
                          !.opt_out_of_secret_key = TRUE]

\* LockedId::from_own_id; rndSalt and rndNonce are what the random sources yield
from_own_id(own_id, passphrase, rndSalt, rndNonce) ==
    LET hasher == lock_hasher
        pwhash == hash_raw(hasher, passphrase, rndSalt)
    IN  IF ~pwhash.ok THEN [kind |-> "err", locked |-> None]
        ELSE IF hasher.version # "_0x13" THEN [kind |-> "panic", locked |-> None]
        ELSE IF own_id.id.url = None THEN [kind |-> "panic", locked |-> None]
        ELSE [kind |-> "ok",
              locked |-> Some(
                [version |-> current_version,
                 public_key |-> own_id.keypair.public,
                 sealed_secret_key |->
                     siv_seal(pwhash.raw_hash_bytes, rndNonce,
                              own_id.keypair.secret),
                 seal_nonce |-> rndNonce,
                 url |-> own_id.id.url[1],
                 pass |-> [salt |-> pwhash.raw_salt_bytes,
                           iterations |-> hasher.iterations,
                           memory_size |-> hasher.memory_size,
                           version |-> 19,
                           variant |-> VariantAsStr(hasher.variant)]])]

\* unlock_hasher that leaves the hash length at the default
unlock_hasher_default_len(pass) ==
    LET ver == VersionFromU32(pass.version)
        var == VariantFromStr(pass.variant)
    IN  [ok |-> ver.ok /\ var.ok,
         hasher |-> [HasherDefault EXCEPT
                        !.memory_size = pass.memory_size,
                        !.version = ver.v,
                        !.iterations = pass.iterations,
                        !.variant = var.v,
                        !.salt = Some(pass.salt),
                        !.opt_out_of_secret_key = TRUE]]

\* to_unlocked: the hasher as configured from the stored PassConfig
unlock_hasher(pass) ==
    LET ver == VersionFromU32(pass.version)
        var == VariantFromStr(pass.variant)
    IN  [ok |-> ver.ok /\ var.ok,
         hasher |-> [HasherDefault EXCEPT
                        !.memory_size = pass.memory_size,
                        !.version = ver.v,
                        !.iterations = pass.iterations,
                        !.variant = var.v,
                        !.salt = Some(pass.salt),
                        !.hash_len = 64,
                        !.opt_out_of_secret_key = TRUE]]

UnlockErr(msg, trace) == [ok |-> FALSE, err |-> msg, id |-> None, trace |-> trace]

\* the public key comparison left out
check_public_key_skipped(public_key, res) == TRUE

\* `if public_key != &res.keypair.public.to_bytes()`
check_public_key(public_key, res) == public_key = res.keypair.public

\* unlock_steps that reports a failed open as a public key mismatch
unlock_steps_open_as_mismatch(l, passphrase) ==
    LET cfg == unlock_hasher(l.pass) IN
    IF ~cfg.ok THEN UnlockErr("KdfConfigInvalid", <<"configure">>)
    ELSE
      LET pwhash == hash_raw(cfg.hasher, passphrase, <<>>) IN
      IF ~pwhash.ok THEN UnlockErr("KdfConfigInvalid", <<"configure", "hash_raw">>)
      ELSE
        LET sec_key == siv_open(pwhash.raw_hash_bytes, l.seal_nonce,
                                l.sealed_secret_key)
        IN
        IF ~sec_key.ok
        THEN UnlockErr("PubKeyMismatch", <<"configure", "hash_raw", "open">>)
        ELSE
          LET res == OwnIdNew(l.url, sec_key.plaintext) IN
          IF ~check_public_key(l.public_key, res)
          THEN UnlockErr("PubKeyMismatch",
                         <<"configure", "hash_raw", "open", "OwnId::new">>)
          ELSE [ok |-> TRUE, err |-> "none", id |-> Some(res),
                trace |-> <<"configure", "hash_raw", "open", "OwnId::new">>]

\* to_unlocked past the version gate; trace lists the steps run, in order
unlock_steps(l, passphrase) ==
    LET cfg == unlock_hasher(l.pass) IN
    IF ~cfg.ok THEN UnlockErr("KdfConfigInvalid", <<"configure">>)
    ELSE
      LET pwhash == hash_raw(cfg.hasher, passphrase, <<>>) IN
      IF ~pwhash.ok THEN UnlockErr("KdfConfigInvalid", <<"configure", "hash_raw">>)
      ELSE
        LET sec_key == siv_open(pwhash.raw_hash_bytes, l.seal_nonce,
                                l.sealed_secret_key)
        IN
        IF ~sec_key.ok
        THEN UnlockErr("OpenFailed", <<"configure", "hash_raw", "open">>)
        ELSE
          LET res == OwnIdNew(l.url, sec_key.plaintext) IN
          IF ~check_public_key(l.public_key, res)
          THEN UnlockErr("PubKeyMismatch",
                         <<"configure", "hash_raw", "open", "OwnId::new">>)
          ELSE [ok |-> TRUE, err |-> "none", id |-> Some(res),
                trace |-> <<"configure", "hash_raw", "open", "OwnId::new">>]

\* to_unlocked that checks the version after the cryptography has run
to_unlocked_late_gate(l, passphrase) ==
    LET r == unlock_steps(l, passphrase) IN
    IF l.version # current_version
    THEN UnlockErr("UnsupportedVersion", r.trace)
    ELSE r

\* LockedId::to_unlocked
to_unlocked(l, passphrase) ==
    IF l.version # current_version
    THEN UnlockErr("UnsupportedVersion", <<>>)
    ELSE unlock_steps(l, passphrase)

NoUnlock == [ok |-> FALSE, err |-> "none", id |-> None, trace |-> <<>>]

VaultIdle ==
    /\ own = <<>>
    /\ lockPw = ""
    /\ locked = None
    /\ orig = None
    /\ vstep = "idle"
    /\ unlockPw = ""
    /\ unlockRes = NoUnlock

VaultStart ==
    /\ own \in OwnIds
    /\ lockPw \in Passphrases
    /\ locked = None
    /\ orig = None
    /\ vstep = "start"
    /\ unlockPw = ""
    /\ unlockRes = NoUnlock

\* LockedId::from_own_id(&own, &lockPw)
Lock ==
    /\ vstep = "start"
    /\ \E rndSalt \in Salts, rndNonce \in Nonces :
         LET r == from_own_id(own, lockPw, rndSalt, rndNonce) IN
         /\ locked' = r.locked
         /\ orig' = r.locked
         /\ vstep' = IF r.kind = "ok" THEN "locked" ELSE r.kind
    /\ UNCHANGED <<own, lockPw, unlockPw, unlockRes>>
    /\ UNCHANGED <<parseVars, signVars, showVars, storeVars, roundVars>>

\* The stored document is changed between save and read.  One of the fields
\* sealed-secret-key, seal-nonce, public-key and pass is changed at most; the
\* version may be changed besides.
Untouched ==
    /\ vstep = "locked"
    /\ locked[1].sealed_secret_key = orig[1].sealed_secret_key
    /\ locked[1].seal_nonce = orig[1].seal_nonce
    /\ locked[1].public_key = orig[1].public_key
    /\ locked[1].pass = orig[1].pass

\* sealed-secret-key: a flipped byte, or the sealing of another secret key
\* under the same key and nonce
TamperSealed ==
    /\ Untouched
    /\ \E ct \in {[locked[1].sealed_secret_key EXCEPT ![5] = "flipped"]} \cup
                 {[locked[1].sealed_secret_key EXCEPT ![4] = sk] :
                     sk \in SecretKeys \ {locked[1].sealed_secret_key[4]}} :
         locked' = Some([locked[1] EXCEPT !.sealed_secret_key = ct])
    /\ UNCHANGED <<own, lockPw, orig, vstep, unlockPw, unlockRes>>
    /\ UNCHANGED <<parseVars, signVars, showVars, storeVars, roundVars>>

TamperNonce ==
    /\ Untouched
    /\ \E n \in (Nonces \cup {"nonce3"}) \ {locked[1].seal_nonce} :
         locked' = Some([locked[1] EXCEPT !.seal_nonce = n])
    /\ UNCHANGED <<own, lockPw, orig, vstep, unlockPw, unlockRes>>
    /\ UNCHANGED <<parseVars, signVars, showVars, storeVars, roundVars>>

TamperPublicKey ==
    /\ Untouched
    /\ \E pk \in ({PublicOf(sk) : sk \in SecretKeys} \cup {<<"pub", "flipped">>})
                 \ {locked[1].public_key} :
         locked' = Some([locked[1] EXCEPT !.public_key = pk])
    /\ UNCHANGED <<own, lockPw, orig, vstep, unlockPw, unlockRes>>
    /\ UNCHANGED <<parseVars, signVars, showVars, storeVars, roundVars>>

TamperPass ==
    /\ Untouched
    /\ \E p \in {[locked[1].pass EXCEPT !.version = 7],
                 [locked[1].pass EXCEPT !.variant = "argon2x"],
                 [locked[1].pass EXCEPT !.iterations = 0],
                 [locked[1].pass EXCEPT !.memory_size = 8192]} :
         locked' = Some([locked[1] EXCEPT !.pass = p])
    /\ UNCHANGED <<own, lockPw, orig, vstep, unlockPw, unlockRes>>
    /\ UNCHANGED <<parseVars, signVars, showVars, storeVars, roundVars>>

TamperVersion ==
    /\ vstep = "locked"
    /\ locked[1].version = orig[1].version
    /\ \E v \in {0, 1} : locked' = Some([locked[1] EXCEPT !.version = v])
    /\ UNCHANGED <<own, lockPw, orig, vstep, unlockPw, unlockRes>>
    /\ UNCHANGED <<parseVars, signVars, showVars, storeVars, roundVars>>

\* locked.to_unlocked(&pw)
Unlock ==
    /\ vstep = "locked"
    /\ \E pw \in Passphrases :
         /\ unlockPw' = pw
         /\ unlockRes' = to_unlocked(locked[1], pw)
    /\ vstep' = "done"
    /\ UNCHANGED <<own, lockPw, locked, orig>>
    /\ UNCHANGED <<parseVars, signVars, showVars, storeVars, roundVars>>

VaultNext ==
    \/ Lock
    \/ TamperSealed
    \/ TamperNonce
    \/ TamperPublicKey
    \/ TamperPass
    \/ TamperVersion
    \/ Unlock

(***************************************************************************)
(* Display for Serialized and for Proof                                    *)
(***************************************************************************)
\* Display for Serialized with the newline after the signature left out
SerializedToString_nonl(s) ==
    begin_block(s.type_) \o <<NL>> \o s.body \o
    begin_signature(s.type_) \o <<NL>> \o s.signature \o
    end_block(s.type_) \o <<NL>>

\* impl fmt::Display for Serialized
SerializedToString(s) ==
    begin_block(s.type_) \o <<NL>> \o s.body \o
    begin_signature(s.type_) \o <<NL>> \o s.signature \o <<NL>> \o
    end_block(s.type_) \o <<NL>>

\* impl fmt::Display for Proof
ProofToString(p) ==
    begin_block(proof_type(p.content)) \o <<NL>> \o p.body \o
    begin_signature(proof_type(p.content)) \o <<NL>> \o p.signature \o <<NL>> \o
    end_block(proof_type(p.content)) \o <<NL>>

\* Serialized records at hand: as the parser emits them, or built by a caller
SerializedSamples ==
    [body : {<<>>, <<Txt("a", 5), NL>>, <<Txt("a", 5), NL, Txt("c", 7), NL>>,
             <<SP, SP, NL>>},
     signature : {<<>>, <<Txt("g", 88)>>, <<Txt("g", 88), NL>>,
                  <<Txt("g", 88), NL, NL>>},
     type_ : ProofType]

\* Proofs at hand: those sign_by builds
ProofSamples == {sign_by(c, id) : c \in Contents, id \in OwnIds}

ShowIdle ==
    /\ shown = <<>>
    /\ showKind = "none"
    /\ text = <<>>

\* format!("{}", serialized)
ShowSerialized ==
    /\ \E s \in SerializedSamples :
         /\ shown' = s
         /\ text' = SerializedToString(s)
    /\ showKind' = "Serialized"
    /\ UNCHANGED <<parseVars, signVars, vaultVars, storeVars, roundVars>>

\* format!("{}", proof)
ShowProof ==
    /\ \E p \in ProofSamples :
         /\ shown' = p
         /\ text' = ProofToString(p)
    /\ showKind' = "Proof"
    /\ UNCHANGED <<parseVars, signVars, vaultVars, storeVars, roundVars>>

ShowNext == ShowSerialized \/ ShowProof

(***************************************************************************)
(* The lines a reader may yield                                            *)
(***************************************************************************)
Markers == UNION {{begin_block(t), begin_signature(t), end_block(t)} : t \in ProofType}

InputLines ==
    Markers \cup
    { <<>>,                                   \* empty line
      <<SP>>,                                 \* whitespace only
      <<SP, Marker("Code", "BEGIN_BLOCK"), SP>>,  \* marker with blanks around it
      <<Txt("a", 5)>>,                        \* a short line of text
      <<Txt("s", MaxSigLen - 1)>>,            \* fills the signature cap with its newline
      <<Txt("b", MaxBodyLen - 1)>> }          \* fills the body cap with its newline

\* a rendered proof block of variant t: the lines of a signed Proof's text
BlockLines(t) ==
    SplitLines(ProofToString(
        sign_by([type_ |-> t, from |-> OwnIdNew("u1", "sk1").id, comment |-> <<>>],
                OwnIdNew("u1", "sk1"))))

\* what one fill of the reader's buffer may hold: one line, or one whole block
Chunks == {<<l>> : l \in InputLines} \cup {BlockLines(t) : t \in ProofType}

ParseStart ==
    /\ state = StateDefault
    /\ result = "running"
    /\ returned = <<>>
    /\ input = <<>>
    /\ pending = <<>>
    /\ chunks = 0
    /\ parsed = [err |-> "pending", proofs |-> <<>>]

\* the BufRead source refills its buffer
FillBuf ==
    /\ result = "running"
    /\ pending = <<>>
    /\ chunks < MaxChunks
    /\ \E c \in Chunks : pending' = c
    /\ chunks' = chunks + 1
    /\ UNCHANGED <<state, result, returned, input, parsed>>
    /\ UNCHANGED <<signVars, vaultVars, showVars, storeVars, roundVars>>

\* `for line in reader.lines() { state.process_line(&line?)?; }`: one turn
ProcessLine ==
    /\ result = "running"
    /\ pending # <<>>
    /\ LET line == Head(pending)
           r == process_line(state, line)
       IN  /\ state' = r.st
           /\ result' = IF r.err = "none" THEN "running" ELSE r.err
           /\ input' = Append(input, line)
           /\ pending' = Tail(pending)
           /\ parsed' = IF r.err = "none" THEN parsed
                        ELSE proof_parse(r.err, r.st.proofs)
    /\ UNCHANGED <<returned, chunks>>
    /\ UNCHANGED <<signVars, vaultVars, showVars, storeVars, roundVars>>

\* the reader is exhausted: `state.finish()`
Finish ==
    /\ result = "running"
    /\ pending = <<>>
    /\ LET r == finish(state) IN
         /\ result' = IF r.err = "none" THEN "ok" ELSE r.err
         /\ returned' = r.proofs
         /\ parsed' = proof_parse(r.err, r.proofs)
    /\ UNCHANGED <<state, input, pending, chunks>>
    /\ UNCHANGED <<signVars, vaultVars, showVars, storeVars, roundVars>>

ParseNext == FillBuf \/ ProcessLine \/ Finish

(***************************************************************************)
(* The LockedId file: save_to, read_from_yaml_file                         *)
(***************************************************************************)
\* how many times save_to is called on the path
MaxSaves == 2

\* the LockedIds from_own_id can return
LockedIds ==
    {r.locked[1] :
        r \in {x \in {from_own_id(o, pw, rs, rn) :
                          o \in OwnIds, pw \in Passphrases,
                          rs \in Salts, rn \in Nonces} : x.kind = "ok"}}

\* impl fmt::Display for LockedId: serde_yaml::to_string, one YAML document
LockedIdToString(l) == << <<"yamldoc", l, 300>> >>

\* serde_yaml::from_str::<LockedId>: the value of a text that is one document
yaml_from_str(str) ==
    IF Len(str) = 1 /\ str[1][1] = "yamldoc"
    THEN [ok |-> TRUE, locked |-> Some(str[1][2])]
    ELSE [ok |-> FALSE, locked |-> None]

\* LockedId::save_to: the file after the call; create(true).append(true)
save_to(f, l) ==
    Some((IF f = None THEN <<>> ELSE f[1]) \o LockedIdToString(l))

\* LockedId::read_from_yaml_file
read_from_yaml_file(f) ==
    IF f = None THEN [ok |-> FALSE, locked |-> None]
    ELSE yaml_from_str(f[1])

NoRead == [ok |-> FALSE, locked |-> None]

StoreIdle ==
    /\ file = None
    /\ lastSaved = None
    /\ saves = 0
    /\ readRes = NoRead
    /\ fstep = "idle"

StoreStart ==
    /\ file = None
    /\ lastSaved = None
    /\ saves = 0
    /\ readRes = NoRead
    /\ fstep = "saving"

\* l.save_to(path)
SaveTo ==
    /\ fstep = "saving"
    /\ saves < MaxSaves
    /\ \E l \in LockedIds :
         /\ file' = save_to(file, l)
         /\ lastSaved' = Some(l)
    /\ saves' = saves + 1
    /\ UNCHANGED <<readRes, fstep>>
    /\ UNCHANGED <<parseVars, signVars, vaultVars, showVars, roundVars>>

\* LockedId::read_from_yaml_file(path)
ReadFromYamlFile ==
    /\ fstep = "saving"
    /\ readRes' = read_from_yaml_file(file)
    /\ fstep' = "read"
    /\ UNCHANGED <<file, lastSaved, saves>>
    /\ UNCHANGED <<parseVars, signVars, vaultVars, showVars, roundVars>>

StoreNext == SaveTo \/ ReadFromYamlFile

(***************************************************************************)
(* Sign, render, parse, render again                                       *)
(***************************************************************************)
\* how many times a parsed text is rendered again
MaxCycles == 2

\* the loop of Serialized::parse over the lines, then State::finish
RECURSIVE process_lines(_, _)
process_lines(st, lines) ==
    IF lines = <<>> THEN finish(st)
    ELSE LET r == process_line(st, Head(lines)) IN
         IF r.err # "none" THEN [err |-> r.err, proofs |-> <<>>]
         ELSE process_lines(r.st, Tail(lines))

\* Serialized::parse of a text
serialized_parse(str) == process_lines(StateDefault, SplitLines(str))

\* Proof::parse of a text
proof_parse_text(str) ==
    LET r == serialized_parse(str) IN proof_parse(r.err, r.proofs)

\* the text of proofs rendered one after the other
RECURSIVE ProofsToString(_)
ProofsToString(ps) ==
    IF ps = <<>> THEN <<>>
    ELSE ProofToString(Head(ps)) \o ProofsToString(Tail(ps))

NoParse == [err |-> "pending", proofs |-> <<>>]

RoundIdle ==
    /\ rtProof = NoProof
    /\ rtText = <<>>
    /\ rtPrev = <<>>
    /\ rtRecords = NoParse
    /\ rtParsed = NoParse
    /\ rtCycles = 0
    /\ rtStep = "idle"

RoundStart ==
    /\ rtProof = NoProof
    /\ rtText = <<>>
    /\ rtPrev = <<>>
    /\ rtRecords = NoParse
    /\ rtParsed = NoParse
    /\ rtCycles = 0
    /\ rtStep = "start"

\* content.sign_by(&id), then the proof's to_string()
RoundSign ==
    /\ rtStep = "start"
    /\ \E c \in Contents, id \in OwnIds :
         /\ rtProof' = sign_by(c, id)
         /\ rtText' = ProofToString(rtProof')
    /\ rtStep' = "rendered"
    /\ UNCHANGED <<rtPrev, rtRecords, rtParsed, rtCycles>>
    /\ UNCHANGED <<parseVars, signVars, vaultVars, showVars, storeVars>>

\* Proof::parse(text)
RoundParse ==
    /\ rtStep = "rendered"
    /\ rtRecords' = serialized_parse(rtText)
    /\ rtParsed' = proof_parse_text(rtText)
    /\ rtStep' = "parsed"
    /\ UNCHANGED <<rtProof, rtText, rtPrev, rtCycles>>
    /\ UNCHANGED <<parseVars, signVars, vaultVars, showVars, storeVars>>

\* the parsed proofs' to_string()
RoundRender ==
    /\ rtStep = "parsed"
    /\ rtParsed.err = "none"
    /\ rtCycles < MaxCycles
    /\ rtPrev' = rtText
    /\ rtText' = ProofsToString(rtParsed.proofs)
    /\ rtCycles' = rtCycles + 1
    /\ rtStep' = "rendered"
    /\ UNCHANGED <<rtProof, rtRecords, rtParsed>>
    /\ UNCHANGED <<parseVars, signVars, vaultVars, showVars, storeVars>>

RoundNext == RoundSign \/ RoundParse \/ RoundRender

(***************************************************************************)
(* Specifications                                                          *)
(***************************************************************************)
ParseInit == ParseStart /\ SignIdle /\ VaultIdle /\ ShowIdle /\ StoreIdle /\ RoundIdle
SpecParse == ParseInit /\ [][ParseNext]_vars

ParseIdle ==
    /\ state = StateDefault
    /\ result = "idle"
    /\ returned = <<>>
    /\ input = <<>>
    /\ pending = <<>>
    /\ chunks = 0
    /\ parsed = [err |-> "pending", proofs |-> <<>>]

SignInit == SignStart /\ ParseIdle /\ VaultIdle /\ ShowIdle /\ StoreIdle /\ RoundIdle
SpecSign == SignInit /\ [][SignNext]_vars

VaultInit == VaultStart /\ ParseIdle /\ SignIdle /\ ShowIdle /\ StoreIdle /\ RoundIdle
SpecVault == VaultInit /\ [][VaultNext]_vars

ShowInit == ShowIdle /\ ParseIdle /\ SignIdle /\ VaultIdle /\ StoreIdle /\ RoundIdle
SpecShow == ShowInit /\ [][ShowNext]_vars

StoreInit ==
    StoreStart /\ ParseIdle /\ SignIdle /\ VaultIdle /\ ShowIdle /\ RoundIdle
SpecStore == StoreInit /\ [][StoreNext]_vars

RoundInit ==
    RoundStart /\ ParseIdle /\ SignIdle /\ VaultIdle /\ ShowIdle /\ StoreIdle
SpecRound == RoundInit /\ [][RoundNext]_vars

(***************************************************************************)
(* Claims about Serialized::parse                                          *)
(***************************************************************************)
\* the line the step has just handed to process_line
ReadLine == input' # input
LastLine(inp) == inp[Len(inp)]

\* the first index >= from of a line that is marker m, or 0
FirstAt(lines, from, m) ==
    LET hits == {i \in from..Len(lines) : Trim(lines[i]) = m}
    IN  IF hits = {} THEN 0 ELSE CHOOSE i \in hits : \A j \in hits : i <= j

NoBlocks == [wf |-> FALSE, recs |-> <<>>]

\* The stream read as the grammar of well-formed blocks: blank lines between
\* blocks; a block is a begin-block marker of a variant t, body lines up to the
\* first begin-signature marker of t, signature lines up to the first end-block
\* marker of t, with the body within MaxBodyLen and the signature within
\* MaxSigLen bytes.  A line is a marker when it is the marker's literal,
\* surrounding whitespace aside.  wf says whether the stream is well formed,
\* recs lists the blocks' records.
RECURSIVE RefBlocks(_)
RefBlocks(lines) ==
    IF lines = <<>> THEN [wf |-> TRUE, recs |-> <<>>]
    ELSE IF Trim(Head(lines)) = <<>> THEN RefBlocks(Tail(lines))
    ELSE IF \A t \in ProofType : Trim(Head(lines)) # begin_block(t) THEN NoBlocks
    ELSE
      LET t == CHOOSE u \in ProofType : Trim(Head(lines)) = begin_block(u)
          i == FirstAt(lines, 2, begin_signature(t))
          j == IF i = 0 THEN 0 ELSE FirstAt(lines, i + 1, end_block(t))
      IN  IF j = 0 THEN NoBlocks
          ELSE
            LET b == JoinLines(SubSeq(lines, 2, i - 1))
                g == JoinLines(SubSeq(lines, i + 1, j - 1))
                rest == RefBlocks(SubSeq(lines, j + 1, Len(lines)))
            IN  IF StrLen(b) > MaxBodyLen \/ StrLen(g) > MaxSigLen THEN NoBlocks
                ELSE [wf |-> rest.wf,
                      recs |-> <<[body |-> b, signature |-> g, type_ |-> t]>>
                               \o rest.recs]

\* C1: parse of a stream of N well-formed blocks, blank lines between them or
\* not, of whatever variants, succeeds and returns exactly the N blocks'
\* records in input order, the i-th with the variant of the i-th block's
\* begin-block marker (a well-formed block being one within the size caps).
C1_WellFormedStreamYieldsItsBlocks ==
    (result # "running" /\ RefBlocks(input).wf) =>
        /\ result = "ok"
        /\ returned = RefBlocks(input).recs

\* two blocks of differing variants with a blank line in the stream, parsed
C1_Witness ==
    /\ result = "ok"
    /\ RefBlocks(input).wf
    /\ Len(returned) = 2
    /\ returned[1].type_ # returned[2].type_
    /\ returned[1].body # <<>>
    /\ \E i \in DOMAIN input : input[i] = <<>>

\* C2: parse succeeds only with the machine back in Stage::None at the end of
\* input, and then returns every record read; when the input ends in Body or
\* Signature the outcome is the unexpected-EOF error and no record.
C2_EofInsideBlockFails ==
    /\ result = "ok" =>
          /\ state.stage = "None"
          /\ pending = <<>>
          /\ returned = state.proofs
    /\ (result \in {"ok", "UnexpectedEof"} /\ state.stage \in {"Body", "Signature"}) =>
          /\ result = "UnexpectedEof"
          /\ returned = <<>>
    /\ result = "UnexpectedEof" => state.stage \in {"Body", "Signature"}

\* the input ended inside the signature of a second block
C2_Witness ==
    /\ result = "UnexpectedEof"
    /\ state.stage = "Signature"
    /\ state.body # <<>>
    /\ Len(state.proofs) = 1

\* C3: in Stage::Body a line that is not the variant's begin-signature marker
\* is appended to body as line + "\n"; the step fails with the body-too-large
\* error exactly when the accumulated body exceeds MaxBodyLen bytes; every
\* record emitted has a body of at most MaxBodyLen bytes.
C3_BodyCap ==
    /\ [][(state.stage = "Body" /\ ReadLine) =>
            LET line == LastLine(input') IN
            /\ Trim(line) # begin_signature(state.type_) =>
                   state'.body = state.body \o line \o <<NL>>
            /\ Trim(line) = begin_signature(state.type_) =>
                   state'.body = state.body
            /\ (result' = "BodyTooLarge") <=> (StrLen(state'.body) > MaxBodyLen)
            /\ result' \in {"running", "BodyTooLarge"}]_vars
    /\ [](\A i \in DOMAIN state.proofs : StrLen(state.proofs[i].body) <= MaxBodyLen)

\* a record whose body is exactly MaxBodyLen bytes was accepted and returned
C3_Witness ==
    /\ result = "ok"
    /\ \E i \in DOMAIN returned : StrLen(returned[i].body) = MaxBodyLen

\* sum of the lines' bytes of an accumulator, without the newlines added
LinesTotal(acc) == StrLen(acc) - Cardinality({i \in DOMAIN acc : acc[i] = NL})

\* C4 as stated: the signature-too-large error arises only for a signature
\* whose lines total more than MaxSigLen bytes.
C4_Original ==
    result = "SignatureTooLarge" => LinesTotal(state.signature) > MaxSigLen

\* C4 amended: in Stage::Signature a line that is not the variant's end-block
\* marker is appended to signature as line + "\n"; the step fails with the
\* signature-too-large error exactly when the accumulated signature, newlines
\* included, exceeds MaxSigLen bytes; the end-block marker emits the record
\* with the accumulated body and signature and never fails.
C4_SignatureCap ==
    [][(state.stage = "Signature" /\ ReadLine) =>
        LET line == LastLine(input') IN
        /\ Trim(line) # end_block(state.type_) =>
               /\ state'.signature = state.signature \o line \o <<NL>>
               /\ state'.proofs = state.proofs
               /\ (result' = "SignatureTooLarge") <=>
                      (StrLen(state.signature) + StrLen(line) + 1 > MaxSigLen)
        /\ Trim(line) = end_block(state.type_) =>
               /\ result' = "running"
               /\ state'.proofs = Append(state.proofs,
                                     [body |-> state.body,
                                      signature |-> state.signature,
                                      type_ |-> state.type_])
        /\ result' \in {"running", "SignatureTooLarge"}]_vars

\* a record whose signature is exactly MaxSigLen bytes was accepted and returned
C4_Witness ==
    /\ result = "ok"
    /\ \E i \in DOMAIN returned : StrLen(returned[i].signature) = MaxSigLen

\* C5: in Stage::None a blank line changes nothing, a line that is the
\* begin-block marker of a variant moves to Stage::Body with that variant and
\* emits nothing, and any other line fails the parse with the unexpected-line
\* error; before the first block and after any block alike.
C5_SeekingTransitions ==
    [][(state.stage = "None" /\ ReadLine) =>
        LET line == Trim(LastLine(input')) IN
        /\ line = <<>> => (state' = state /\ result' = "running")
        /\ \A t \in ProofType :
              line = begin_block(t) =>
                 /\ state'.stage = "Body"
                 /\ state'.type_ = t
                 /\ state'.proofs = state.proofs
                 /\ result' = "running"
        /\ (line # <<>> /\ \A t \in ProofType : line # begin_block(t)) =>
                 /\ result' = "UnexpectedLine"
                 /\ state'.proofs = state.proofs]_vars

\* a stray line after a finished block made the parse fail
C5_Witness ==
    /\ result = "UnexpectedLine"
    /\ Len(state.proofs) >= 1
    /\ LastLine(input) \in Markers

(***************************************************************************)
(* Claims about sign_by and verify                                         *)
(***************************************************************************)
\* C6: the Proof sign_by(content, id) returns passes verify exactly when the
\* key verify checks it against, the author id of its content, is id's public
\* key and its body is the body that was signed: it fails against any other
\* public key and fails once the body is altered.
C6_SignThenVerify ==
    sstep = "verified" =>
        /\ (verdict = "ok") <=>
              /\ author_id(proof.content) = signer.keypair.public
              /\ proof.body = signedBody
        /\ verdict \in {"ok", "BadSignature"}

\* a proof signed by its author, unaltered, was verified
C6_Witness ==
    /\ sstep = "verified"
    /\ verdict = "ok"
    /\ proof = sign_by(content, signer)
    /\ content.comment # <<>>

(***************************************************************************)
(* Claims about LockedId                                                   *)
(***************************************************************************)
\* the fields of a hasher configuration that determine the derived key
KdfFields ==
    {"variant", "version", "iterations", "memory_size", "hash_len", "lanes", "salt",
     "opt_out_of_secret_key"}

\* C7: unlocking what from_own_id returned, with the passphrase it was locked
\* with, succeeds and returns the identity's public key, secret key and URL;
\* the hasher to_unlocked configures agrees with the hasher of from_own_id in
\* every field that determines the key, the salt being the one persisted.
C7_LockUnlockRoundTrip ==
    (vstep = "done" /\ locked = orig /\ unlockPw = lockPw) =>
        /\ unlockRes.ok
        /\ unlockRes.id[1].keypair = own.keypair
        /\ unlockRes.id[1].id = own.id
        /\ LET hu == unlock_hasher(orig[1].pass)
               hl == [lock_hasher EXCEPT !.salt = Some(orig[1].pass.salt)]
           IN  /\ hu.ok
               /\ \A f \in KdfFields : hu.hasher[f] = hl[f]

\* an identity was locked and unlocked with the same passphrase
C7_Witness ==
    /\ vstep = "done"
    /\ locked = orig
    /\ unlockPw = lockPw
    /\ unlockRes.ok

\* C8: to_unlocked returns an OwnId only with the keys that were locked; with
\* another passphrase than the one used to lock, or with the sealed secret key,
\* the seal nonce or the stored public key changed after locking, it returns
\* an error and no OwnId.
C8_UnlockRejectsTampering ==
    vstep = "done" =>
        /\ unlockRes.ok => unlockRes.id[1].keypair = own.keypair
        /\ unlockRes.ok <=> (unlockRes.id # None)
        /\ (\/ unlockPw # lockPw
            \/ locked[1].sealed_secret_key # orig[1].sealed_secret_key
            \/ locked[1].seal_nonce # orig[1].seal_nonce
            \/ locked[1].public_key # orig[1].public_key) =>
                 (~unlockRes.ok /\ unlockRes.id = None)

\* the right passphrase, a changed public key: the open succeeded, no OwnId
C8_Witness ==
    /\ vstep = "done"
    /\ unlockPw = lockPw
    /\ locked[1].public_key # orig[1].public_key
    /\ locked[1].version = current_version
    /\ unlockRes.err = "PubKeyMismatch"
    /\ unlockRes.id = None

\* C9: to_unlocked of a LockedId whose version is not the current version
\* returns the unsupported-version error having run no other step: no hasher
\* configuration, no password hash, no open, no key reconstruction, whatever
\* the other fields hold.
C9_VersionGateFirst ==
    (vstep = "done" /\ locked[1].version # current_version) =>
        /\ ~unlockRes.ok
        /\ unlockRes.err = "UnsupportedVersion"
        /\ unlockRes.trace = <<>>
        /\ unlockRes.id = None

\* an unsupported version met with the right passphrase and a broken PassConfig
C9_Witness ==
    /\ vstep = "done"
    /\ locked[1].version # current_version
    /\ locked[1].pass # orig[1].pass
    /\ unlockPw = lockPw
    /\ unlockRes.err = "UnsupportedVersion"

(***************************************************************************)
(* Claims about Display                                                    *)
(***************************************************************************)
\* the variant whose markers frame the rendered value
ShownType == IF showKind = "Proof" THEN shown.content.type_ ELSE shown.type_

\* C10 as stated: the text is begin-block marker, newline, body,
\* begin-signature marker, newline, signature, end-block marker, newline.
C10_Original ==
    showKind # "none" =>
        text = <<Marker(ShownType, "BEGIN_BLOCK"), NL>> \o shown.body \o
               <<Marker(ShownType, "BEGIN_SIGNATURE"), NL>> \o shown.signature \o
               <<Marker(ShownType, "END_BLOCK"), NL>>

\* C10 amended: the text is begin-block marker, newline, body,
\* begin-signature marker, newline, signature, newline, end-block marker,
\* newline, the markers being those of the value's variant.
C10_RenderedLayout ==
    showKind # "none" =>
        text = <<Marker(ShownType, "BEGIN_BLOCK"), NL>> \o shown.body \o
               <<Marker(ShownType, "BEGIN_SIGNATURE"), NL>> \o shown.signature \o
               <<NL, Marker(ShownType, "END_BLOCK"), NL>>

\* a signed Proof with a body of several lines was rendered
C10_Witness ==
    /\ showKind = "Proof"
    /\ Len(shown.content.comment) = 2
    /\ shown.signature # <<>>
    /\ text = ProofToString(shown)

(***************************************************************************)
(* Claims about failure, markers inside a block and the accumulators       *)
(***************************************************************************)
ParseFailed == result \notin {"idle", "running", "ok"}

\* C12: parsing aborts at the first offending line: once process_line has
\* failed no later line is processed, and the failed parse returns the error
\* alone; neither Serialized::parse nor Proof::parse hands over the records
\* completed before the failure.
C12_AbortsAtFirstOffendingLine ==
    /\ [](ParseFailed =>
            /\ returned = <<>>
            /\ parsed = [err |-> result, proofs |-> <<>>])
    /\ [](parsed.err \notin {"none", "pending"} => parsed.proofs = <<>>)
    /\ [][ParseFailed =>
            /\ input' = input
            /\ state' = state
            /\ returned' = returned
            /\ parsed' = parsed]_vars
    /\ [][(ReadLine /\ result' # "running") =>
            /\ result' = process_line(state, LastLine(input')).err
            /\ pending' = Tail(pending)]_vars

\* a line failed after a record was completed and with lines still unread
C12_Witness ==
    /\ result = "BodyTooLarge"
    /\ state.proofs # <<>>
    /\ pending # <<>>
    /\ parsed.err = "BodyTooLarge"

\* C15: inside a block only the markers of the remembered variant cause a
\* transition.  In Stage::Body every line but the variant's begin-signature
\* marker, the markers of other variants included, is appended to the body;
\* in Stage::Signature every line but the variant's end-block marker is
\* appended to the signature; the remembered variant changes only on a
\* begin-block marker read in Stage::None; so a record is opened, switched and
\* closed by the three markers of its own variant.
C15_OnlyOwnMarkersTransition ==
    [][ReadLine =>
        LET line == LastLine(input') IN
        /\ state.stage = "None" =>
              (state'.stage = "Body" =>
                   /\ Trim(line) = begin_block(state'.type_)
                   /\ state'.proofs = state.proofs)
        /\ state.stage = "Body" =>
              /\ state'.type_ = state.type_
              /\ state'.proofs = state.proofs
              /\ IF Trim(line) = begin_signature(state.type_)
                 THEN state'.stage = "Signature" /\ state'.body = state.body
                 ELSE /\ state'.stage = "Body"
                      /\ state'.body = state.body \o line \o <<NL>>
        /\ state.stage = "Signature" =>
              /\ state'.type_ = state.type_
              /\ IF Trim(line) = end_block(state.type_)
                 THEN /\ state'.stage = "None"
                      /\ state'.proofs =
                            Append(state.proofs,
                                   [body |-> state.body,
                                    signature |-> state.signature,
                                    type_ |-> state.type_])
                 ELSE /\ state'.stage = "Signature"
                      /\ state'.proofs = state.proofs
                      /\ state'.signature = state.signature \o line \o <<NL>>
    ]_vars

\* a record was returned whose body holds a marker line of another variant
C15_Witness ==
    /\ result = "ok"
    /\ \E i \in DOMAIN returned :
         \E k \in DOMAIN returned[i].body :
            /\ returned[i].body[k][1] = "mark"
            /\ returned[i].body[k][2] # returned[i].type_

\* C16: whenever the parser is in Stage::None both accumulators are empty, and
\* the signature is empty until the begin-signature marker; so the records
\* read so far are exactly the blocks of the input, each body the lines
\* between its begin-block and begin-signature markers and each signature the
\* lines between its begin-signature and end-block markers.
C16_AccumulatorsEmptyWhenSeeking ==
    /\ state.stage = "None" => (state.body = <<>> /\ state.signature = <<>>)
    /\ state.stage = "Body" => state.signature = <<>>
    /\ (result \in {"running", "ok"} /\ state.stage = "None") =>
          /\ RefBlocks(input).wf
          /\ state.proofs = RefBlocks(input).recs

\* two records of differing bodies and signatures were read, text between them
C16_Witness ==
    /\ result = "running"
    /\ state.stage = "None"
    /\ Len(state.proofs) = 2
    /\ state.proofs[1].body # state.proofs[2].body
    /\ state.proofs[1].signature # state.proofs[2].signature
    /\ \E i \in DOMAIN input : i > 1 /\ i < Len(input) /\ Trim(input[i]) = <<>>

(***************************************************************************)
(* Claims about what verify reads                                          *)
(***************************************************************************)
\* the proofs that agree with p on the stored body, the trimmed signature and
\* the author id of the content, whatever their digest and other content
SameVerifyInputs(p) ==
    {[body |-> p.body, signature |-> g, digest |-> d, content |-> c] :
        g \in {p.signature, p.signature \o <<NL>>, <<SP>> \o p.signature},
        d \in {blake2sum(<<>>), blake2sum(p.body)},
        c \in {k \in Contents : author_id(k) = author_id(p.content)}}

\* C14: the outcome of Proof::verify depends only on the stored body, the
\* trimmed stored signature and the author id of the content: every proof that
\* agrees with the verified one on these three gets the same outcome, whatever
\* its digest and the rest of its content, and a proof signed by its author
\* verifies whether or not its digest is still the hash of its body.
C14_VerifyReadsBodySignatureAuthor ==
    sstep = "verified" =>
        /\ \A q \in SameVerifyInputs(proof) : verify(q) = verdict
        /\ ( /\ author_id(proof.content) = signer.keypair.public
             /\ proof.body = signedBody
             /\ Trim(proof.signature) = Base64Encode(OwnIdSign(signer, signedBody)) )
           => verdict = "ok"

\* a proof whose digest no longer matches its body, and whose content is no
\* longer the one signed, verified
C14_Witness ==
    /\ sstep = "verified"
    /\ verdict = "ok"
    /\ proof.digest # blake2sum(proof.body)
    /\ proof.content # content
    /\ proof.signature # Trim(proof.signature)

(***************************************************************************)
(* Claims about the errors of to_unlocked and the outcome of from_own_id   *)
(***************************************************************************)
\* the stored document and the passphrase are such that the open cannot
\* authenticate: another passphrase, a flipped ciphertext, another nonce
OpenCannotAuthenticate ==
    \/ unlockPw # lockPw
    \/ locked[1].sealed_secret_key[5] = "flipped"
    \/ locked[1].seal_nonce # orig[1].seal_nonce

\* C13: to_unlocked reports a wrong passphrase, a tampered sealed secret key
\* and a tampered nonce through one and the same error, that of the open step;
\* a stored public key that differs from the key of the recovered secret is
\* reported through another error, which arises only after the open step has
\* succeeded.
C13_OneAuthenticationError ==
    (/\ vstep = "done"
     /\ locked[1].version = current_version
     /\ locked[1].pass = orig[1].pass) =>
        /\ OpenCannotAuthenticate =>
              unlockRes = UnlockErr("OpenFailed", <<"configure", "hash_raw", "open">>)
        /\ unlockRes.err = "PubKeyMismatch" =>
              /\ ~OpenCannotAuthenticate
              /\ unlockRes.trace = <<"configure", "hash_raw", "open", "OwnId::new">>
              /\ locked[1].public_key # PublicOf(locked[1].sealed_secret_key[4])
        /\ (~OpenCannotAuthenticate /\
            locked[1].public_key # PublicOf(locked[1].sealed_secret_key[4])) =>
              unlockRes.err = "PubKeyMismatch"

\* the right passphrase met a sealed secret key with a flipped byte
C13_Witness ==
    /\ vstep = "done"
    /\ unlockPw = lockPw
    /\ locked[1].version = current_version
    /\ locked[1].sealed_secret_key[5] = "flipped"
    /\ unlockRes.err = "OpenFailed"

\* C18: from_own_id ends with a LockedId or with an error value for every
\* owning identity, one without claimed URL included, and never aborts; the
\* LockedId it returns has the identity's URL and public key.
C18_FromOwnIdNeverAborts ==
    /\ vstep # "panic"
    /\ orig # None =>
          /\ own.id.url = Some(orig[1].url)
          /\ orig[1].public_key = own.keypair.public

(***************************************************************************)
(* Claims about the LockedId file                                          *)
(***************************************************************************)
\* C17: after any sequence of save_to calls on one path the file holds one
\* complete document, that of the last save, and read_from_yaml_file on the
\* path returns a LockedId equal to the last one saved.
C17_FileHoldsLastSaved ==
    lastSaved # None =>
        /\ file = Some(LockedIdToString(lastSaved[1]))
        /\ fstep = "read" => readRes = [ok |-> TRUE, locked |-> lastSaved]

(***************************************************************************)
(* Claims about signing, rendering and parsing back                        *)
(***************************************************************************)
\* C11: every Proof built by sign_by or by to_parsed / Proof::parse has for
\* digest the hash of its own stored body, and for content a content of the
\* variant of what it was built from: the Content signed, the record parsed.
C11_DigestAndVariantOfConstructedProofs ==
    /\ rtStep # "start" =>
          /\ rtProof.digest = blake2sum(rtProof.body)
          /\ \E c \in Contents :
                /\ rtProof.content = c
                /\ rtProof.body = ContentToString(c)
                /\ proof_type(rtProof.content) = proof_type(c)
    /\ (rtStep = "parsed" /\ rtParsed.err = "none") =>
          /\ Len(rtParsed.proofs) = Len(rtRecords.proofs)
          /\ \A i \in DOMAIN rtParsed.proofs :
                /\ rtParsed.proofs[i].body = rtRecords.proofs[i].body
                /\ rtParsed.proofs[i].digest = blake2sum(rtParsed.proofs[i].body)
                /\ proof_type(rtParsed.proofs[i].content) = rtRecords.proofs[i].type_

\* a signed proof was rendered and parsed back into a proof with a comment
C11_Witness ==
    /\ rtStep = "parsed"
    /\ rtParsed.err = "none"
    /\ Len(rtParsed.proofs) = 1
    /\ rtParsed.proofs[1].content.comment # <<>>
    /\ rtParsed.proofs[1].signature # <<>>

\* C19: for every Proof p of sign_by, parsing the rendered text of p yields
\* exactly one proof, with the body of p, the digest of p, a signature() equal
\* to p.signature and the verify outcome of p; also when a line of the body,
\* trimmed, equals a marker.
C19_SignRenderParseRoundTrip ==
    (rtStep = "parsed" /\ rtCycles = 0) =>
        /\ rtParsed.err = "none"
        /\ Len(rtParsed.proofs) = 1
        /\ rtParsed.proofs[1].body = rtProof.body
        /\ rtParsed.proofs[1].digest = rtProof.digest
        /\ ProofSignature(rtParsed.proofs[1]) = rtProof.signature
        /\ verify(rtParsed.proofs[1]) = verify(rtProof)

\* C20: rendering the proofs obtained by parsing a text gives back the text
\* byte for byte, and repeated parse-then-render cycles leave the text
\* unchanged: the stored signature does not grow.
C20_RenderStableUnderParse ==
    (rtStep = "rendered" /\ rtCycles >= 1) => rtText = rtPrev

====
